---------------------------- MODULE Spec2Model ----------------------------
(***************************************************************************)
(* Model of the Telegram weather bot: the coordinate parser                *)
(* (coord_parser.py), the weather derivation (weather.py) and the message  *)
(* handler (main.py).                                                      *)
(*                                                                         *)
(* Text is modelled as a sequence of lexical tokens.  A token is a record  *)
(* [k, d, m, s, c]:                                                        *)
(*   k = "sep"   one of the characters newline, '/', '|'                   *)
(*   k = "lat"   a word matching  широт|lat                                *)
(*   k = "lon"   a word matching  долгот|lon|lng                           *)
(*   k = "num"   one maximal match of _DEG_MIN_SEC_RE, with its groups     *)
(*               deg = d, min = m, sec = s (Absent when the group did not  *)
(*               take part in the match)                                   *)
(*   k = "dir"   one direction letter c, lower-cased:                      *)
(*               "n" "s" (Latin), "es" "yu" (Cyrillic с, ю) for latitude;  *)
(*               "e" "w" (Latin), "ve" "ze" (Cyrillic в, з) for longitude  *)
(*   k = "word"  any other text (no digit, no direction letter)            *)
(* Angles are kept in arc seconds so that deg + min/60 + sec/3600 is exact.*)
(***************************************************************************)
EXTENDS Integers, Sequences, FiniteSets, TLC

VARIABLES
    \* parse_coordinates as a step: its argument, its result, whether it ran
    input_text, parsed, parse_done,
    \* derive_winds_profile as a step: its arguments, its result, whether it ran
    dw_times, dw_gfs, dw_icon, dw_out, dw_done,
    \* slice_intervals as a step: its arguments, its result, whether it ran
    sl_surface, sl_profile, sl_intervals, sl_done,
    \* handle_message: the position in the handler, the message being handled
    \* and the number of messages received so far
    pc, msg, handled,
    \* handle_message's locals: the parse result, the normalised zone, where
    \* date_local came from, the fetched JSON and the computed intervals
    coords, timezone, date_from, surface, winds_all, intervals, place_short,
    \* what happened while handling the message: the fetches that returned,
    \* the step that raised, whether reverse_geocode failed, the replies sent
    \* and the number of requests made to each endpoint
    fetched, failed, geo_failed, replies, calls

\* Python's None for an optional number (every real reading is >= 0).
Absent == -1

\* ------------------------------------------------------------------------
\* Bounds of the model
\* ------------------------------------------------------------------------
\* Number of segments (optional separator, label, angle, direction) a text is
\* built from.
MaxSegs == 2
\* Number of messages handled one after another.
MaxMessages == 2
\* Number of hourly records in a surface series.
MaxHours == 3
\* Number of timestamps handed to derive_winds_profile.
MaxTimes == 1

\* ------------------------------------------------------------------------
\* Tokens
\* ------------------------------------------------------------------------
Tok(k, d, m, s, c) == [k |-> k, d |-> d, m |-> m, s |-> s, c |-> c]
SepTok == Tok("sep", 0, 0, 0, "")
LatTok == Tok("lat", 0, 0, 0, "")
LonTok == Tok("lon", 0, 0, 0, "")
WordTok == Tok("word", 0, 0, 0, "")
NumTok(d, m, s) == Tok("num", d, m, s, "")
DirTok(c) == Tok("dir", 0, 0, 0, c)

\* _LAT_DIR_RE and _LON_DIR_RE: the letters each pattern can match.  The first
\* alternative of each pattern is a single letter, so the matched group is
\* always one letter (the phrase "ю. ш." is matched as "ю").
LatDirs == {"n", "s", "es", "yu"}
LonDirs == {"e", "w", "ve", "ze"}

\* ------------------------------------------------------------------------
\* coord_parser.py
\* ------------------------------------------------------------------------
AbsInt(x) == IF x < 0 THEN 0 - x ELSE x

\* dms_to_decimal, in arc seconds: sign * (|deg| + min/60 + sec/3600) * 3600.
dms_to_decimal(deg, minute, sec, sign) ==
    sign * (AbsInt(deg) * 3600 + minute * 60 + sec)

\* The least index of a set of indices, or 0 for the empty set (no match).
FirstIdx(S) == IF S = {} THEN 0 ELSE CHOOSE i \in S : \A j \in S : i <= j

IsNum(x) == x.k = "num"
IsSep(x) == x.k = "sep"
IsLatLabel(x) == x.k = "lat"
IsLonLabel(x) == x.k = "lon"
IsLatDir(x) == x.k = "dir" /\ x.c \in LatDirs
IsLonDir(x) == x.k = "dir" /\ x.c \in LonDirs

\* re.search on a fragment: the position of the first match of each pattern.
FirstNum(t) == FirstIdx({i \in 1..Len(t) : IsNum(t[i])})
FirstSep(t) == FirstIdx({i \in 1..Len(t) : IsSep(t[i])})
FirstLatDir(t) == FirstIdx({i \in 1..Len(t) : IsLatDir(t[i])})
FirstLonDir(t) == FirstIdx({i \in 1..Len(t) : IsLonDir(t[i])})
HasLatLabel(t) == \E i \in 1..Len(t) : IsLatLabel(t[i])
HasLonLabel(t) == \E i \in 1..Len(t) : IsLonLabel(t[i])

\* The 'or 0.0' of _extract_dms: an absent group counts as 0.
OrZero(v) == IF v = Absent THEN 0 ELSE v

\* _extract_dms: the first match of _DEG_MIN_SEC_RE in the fragment and the
\* text after it; found = FALSE stands for the None result.
NoDms == [found |-> FALSE, deg |-> 0, minute |-> 0, sec |-> 0, tail |-> <<>>]
extract_dms(fragment) ==
    LET i == FirstNum(fragment)
    IN  IF i = 0 THEN NoDms
        ELSE [found |-> TRUE,
              deg |-> fragment[i].d,
              minute |-> OrZero(fragment[i].m),
              sec |-> OrZero(fragment[i].s),
              tail |-> SubSeq(fragment, i + 1, Len(fragment))]

\* _direction_sign: the first direction letter of the axis in the text after
\* the number decides; no text or no letter gives +1.
direction_sign(text_after, is_lat) ==
    IF text_after = <<>> THEN 1
    ELSE IF is_lat
         THEN LET i == FirstLatDir(text_after)
              IN  IF i = 0 THEN 1
                  ELSE IF text_after[i].c = "s" \/ text_after[i].c = "yu"
                       THEN -1 ELSE 1
         ELSE LET i == FirstLonDir(text_after)
              IN  IF i = 0 THEN 1
                  ELSE IF text_after[i].c = "w" \/ text_after[i].c = "ze"
                       THEN -1 ELSE 1

\* re.split(r"[\n/|]", text): the parts between separators, in order.
RECURSIVE SplitParts(_)
SplitParts(t) ==
    LET i == FirstSep(t)
    IN  IF i = 0 THEN <<t>>
        ELSE <<SubSeq(t, 1, i - 1)>> \o SplitParts(SubSeq(t, i + 1, Len(t)))

\* The label loop of parse_coordinates: the last part that carries a latitude
\* word, and the last part that carries a longitude word and no latitude word
\* (the elif).  found = FALSE stands for None.
NoFrag == [found |-> FALSE, frag |-> <<>>]
RECURSIVE LabelLoop(_, _, _, _)
LabelLoop(parts, i, lat_frag, lon_frag) ==
    IF i > Len(parts) THEN [lat |-> lat_frag, lon |-> lon_frag]
    ELSE IF HasLatLabel(parts[i])
         THEN LabelLoop(parts, i + 1, [found |-> TRUE, frag |-> parts[i]], lon_frag)
    ELSE IF HasLonLabel(parts[i])
         THEN LabelLoop(parts, i + 1, lat_frag, [found |-> TRUE, frag |-> parts[i]])
    ELSE LabelLoop(parts, i + 1, lat_frag, lon_frag)

\* _DEG_MIN_SEC_RE.findall(text)
findall(t) == SelectSeq(t, IsNum)

\* Lines 75-81: with a label missing and at least two matches in the text,
\* both fragments become the whole text.
Fallback(text, labelled) ==
    IF (~labelled.lat.found \/ ~labelled.lon.found) /\ Len(findall(text)) >= 2
    THEN [lat |-> [found |-> TRUE, frag |-> text],
          lon |-> [found |-> TRUE, frag |-> text]]
    ELSE labelled

\* 'lat_frag or text'
FragOrText(f, text) == IF f.found /\ f.frag # <<>> THEN f.frag ELSE text

\* parse_coordinates: ok = FALSE stands for the ValueError.
ParseFail == [ok |-> FALSE, lat |-> 0, lon |-> 0]
parse_coordinates(text) ==
    LET frags == Fallback(text, LabelLoop(SplitParts(text), 1, NoFrag, NoFrag))
        lat_tuple == extract_dms(FragOrText(frags.lat, text))
        lon_tuple == extract_dms(FragOrText(frags.lon, text))
    IN  IF ~lat_tuple.found \/ ~lon_tuple.found THEN ParseFail
        ELSE [ok |-> TRUE,
              lat |-> dms_to_decimal(lat_tuple.deg, lat_tuple.minute, lat_tuple.sec,
                                     direction_sign(lat_tuple.tail, TRUE)),
              lon |-> dms_to_decimal(lon_tuple.deg, lon_tuple.minute, lon_tuple.sec,
                                     direction_sign(lon_tuple.tail, FALSE))]

\* ------------------------------------------------------------------------
\* weather.py
\*
\* Times of day are whole hours (the hourly series carries one timestamp per
\* hour, "YYYY-MM-DDTHH:00").  Wind speeds come in km/h as integers; a speed
\* in m/s is kept in units of 1/864 m/s, so that the division by 3.6, the mean
\* of two models and the two interpolations are all exact.  Precipitation is
\* in hundredths of a millimetre, cloud cover in percent.
\* ------------------------------------------------------------------------
\* INTERVALS: the (start, end) hours of the seven windows.
INTERVALS == << <<0, 3>>, <<3, 6>>, <<6, 12>>, <<12, 15>>, <<15, 18>>,
                <<18, 20>>, <<20, 23>> >>

\* _to_ms: kmh / 3.6, in units of 1/864 m/s.
to_ms(kmh) == kmh * 240

Z_850 == 1500
Z_700 == 3000
Z_600 == 4200

\* _interp (the operands the code passes make the division exact).
interp(value_low, z_low, value_high, z_high, z) ==
    IF z_high = z_low THEN value_low
    ELSE value_low + ((z - z_low) * (value_high - value_low)) \div (z_high - z_low)

RECURSIVE SumSeq(_)
SumSeq(q) == IF q = <<>> THEN 0 ELSE Head(q) + SumSeq(Tail(q))

\* A variant of ModelVals with the bug of reading a missing value as 0
\* ('x or 0.0') instead of skipping the model.
ModelValsZero(data, i) ==
    IF i > Len(data.s850) \/ i > Len(data.s700) \/ i > Len(data.s600) THEN <<>>
    ELSE << <<to_ms(OrZero(data.s850[i])), to_ms(OrZero(data.s700[i])),
              to_ms(OrZero(data.s600[i]))>> >>

\* One model's JSON: the three hourly wind-speed lists.  A missing "hourly"
\* block or a missing key reads like an empty list: both raise inside the try.
\* The readings of one model at index i (lines 113-126): <<>> when the lookup
\* raises or a reading is None (the model is skipped), else the converted
\* triple.
ModelVals(data, i) ==
    IF i > Len(data.s850) \/ i > Len(data.s700) \/ i > Len(data.s600) THEN <<>>
    ELSE IF data.s850[i] = Absent \/ data.s700[i] = Absent \/ data.s600[i] = Absent
         THEN <<>>
    ELSE << <<to_ms(data.s850[i]), to_ms(data.s700[i]), to_ms(data.s600[i])>> >>

\* vals.values(): the triples of the models that were not skipped.
Vals(gfs, icon, i) == ModelVals(gfs, i) \o ModelVals(icon, i)

\* avg(idx): sum(arr) / len(arr) over the models present.
avg(vals, idx) == SumSeq([m \in 1..Len(vals) |-> vals[m][idx]]) \div Len(vals)

\* Lines 134-147: the sample written to out[t].
Sample(vals) ==
    LET s850 == avg(vals, 1)
        s700 == avg(vals, 2)
        s600 == avg(vals, 3)
    IN  [w1500 |-> s850,
         w2500 |-> interp(s850, Z_850, s700, Z_700, 2500),
         w3500 |-> interp(s700, Z_700, s600, Z_600, 3500)]

\* derive_winds_profile: the dict from timestamp to sample; a timestamp with no
\* complete model gets no key.
derive_winds_profile(times, gfs, icon) ==
    LET kept == {i \in 1..Len(times) : Vals(gfs, icon, i) # <<>>}
        \* a later index overwrites an earlier one with the same timestamp
        last(t) == CHOOSE i \in kept : times[i] = t /\ \A j \in kept : times[j] = t => j <= i
    IN  [t \in {times[i] : i \in kept} |-> Sample(Vals(gfs, icon, last(t)))]

\* A variant of InWindow with the bug of a closed window, start_t <= t <= end_t.
InWindowClosed(t, w) == w[1] <= t /\ t <= w[2]

\* Line 182: the indices whose time of day falls in [start_t, end_t).
InWindow(t, w) == w[1] <= t /\ t < w[2]
Idxs(times, w) == SelectSeq([i \in 1..Len(times) |-> i], LAMBDA i : InWindow(times[i], w))

\* 'x or 0': a missing reading counts as 0.
OrZeroAt(series, idxs) == [j \in 1..Len(idxs) |-> OrZero(series[idxs[j]])]

MaxOf(q) == CHOOSE x \in {q[j] : j \in 1..Len(q)} : \A j \in 1..Len(q) : q[j] <= x

\* A variant of Describe with the bug of strict cloud-cover thresholds.
DescribeStrict(p_sum, cloud_sum, n) ==
    IF p_sum > 5 THEN "rain"
    ELSE IF cloud_sum > 70 * n THEN "overcast"
    ELSE IF cloud_sum > 30 * n THEN "variable"
    ELSE "clear-ish"

\* Lines 201-204: the description from the precipitation sum (hundredths of a
\* millimetre), the cloud-cover sum and the number of selected hours; the mean
\* cloud_sum / n is compared as cloud_sum against 70 * n and 30 * n.
Describe(p_sum, cloud_sum, n) ==
    IF p_sum > 5 THEN "rain"
    ELSE IF cloud_sum >= 70 * n THEN "overcast"
    ELSE IF cloud_sum >= 30 * n THEN "variable"
    ELSE "clear-ish"

\* compute_lcl_m, in metres (the model's temperatures are whole degrees >= 0).
compute_lcl_m(temp_c, dewpoint_c) ==
    IF temp_c = Absent \/ dewpoint_c = Absent THEN Absent
    ELSE IF 125 * (temp_c - dewpoint_c) < 0 THEN 0
    ELSE 125 * (temp_c - dewpoint_c)

\* Lines 183-194: the summary of a window with no selected hour (idxs is the
\* loop's local list of selected indices, here empty).
NoData == [idxs |-> <<>>, desc |-> "no-data", wind_ground_num |-> Absent, wind_ground_den |-> 1,
           wind_gust_ms |-> Absent, w1500 |-> Absent, w2500 |-> Absent,
           w3500 |-> Absent, cloud_base_num |-> Absent, cloud_base_den |-> 1]

\* Whether the body of the loop raises IndexError for this window: a series
\* shorter than the selected indices (the gust series is read only when it is
\* not empty).
WindowRaises(surf, idxs) ==
    \E j \in 1..Len(idxs) :
        \/ idxs[j] > Len(surf.precipitation)
        \/ idxs[j] > Len(surf.cloud_cover)
        \/ idxs[j] > Len(surf.wind_speed_10m)
        \/ (surf.wind_gusts_10m # <<>> /\ idxs[j] > Len(surf.wind_gusts_10m))
        \/ idxs[j] > Len(surf.temperature_2m)
        \/ idxs[j] > Len(surf.dew_point_2m)

\* A variant of MidIndex with the bug of taking the earlier of the two middle
\* hours when the number of selected hours is even.
MidIndexEarlier(idxs) == idxs[((Len(idxs) - 1) \div 2) + 1]

\* Line 216: idxs[len(idxs)//2] (Python counts positions from 0, sequences
\* here from 1).
MidIndex(idxs) == idxs[(Len(idxs) \div 2) + 1]

\* Lines 196-230: the summary of a window with selected hours; idxs, the local
\* list of selected indices, is kept beside the fields of the dict.  The mean
\* ground wind is the fraction wind_ground_num / wind_ground_den and the cloud
\* base the fraction cloud_base_num / cloud_base_den.
Summary(surf, winds_profile, idxs) ==
    LET n == Len(idxs)
        p_sum == SumSeq(OrZeroAt(surf.precipitation, idxs))
        cloud_sum == SumSeq(OrZeroAt(surf.cloud_cover, idxs))
        mid_i == MidIndex(idxs)
        time_key == surf.time[mid_i]
        has == time_key \in DOMAIN winds_profile
        lcl_all == [j \in 1..n |-> compute_lcl_m(surf.temperature_2m[idxs[j]],
                                                 surf.dew_point_2m[idxs[j]])]
        lcl_vals == SelectSeq(lcl_all, LAMBDA v : v # Absent)
    IN  [idxs |-> idxs,
         desc |-> Describe(p_sum, cloud_sum, n),
         wind_ground_num |-> to_ms(SumSeq(OrZeroAt(surf.wind_speed_10m, idxs))),
         wind_ground_den |-> n,
         wind_gust_ms |-> IF surf.wind_gusts_10m # <<>>
                          THEN to_ms(MaxOf(OrZeroAt(surf.wind_gusts_10m, idxs)))
                          ELSE Absent,
         w1500 |-> IF has THEN winds_profile[time_key].w1500 ELSE Absent,
         w2500 |-> IF has THEN winds_profile[time_key].w2500 ELSE Absent,
         w3500 |-> IF has THEN winds_profile[time_key].w3500 ELSE Absent,
         cloud_base_num |-> IF lcl_vals # <<>> THEN SumSeq(lcl_vals) ELSE Absent,
         cloud_base_den |-> IF lcl_vals # <<>> THEN Len(lcl_vals) ELSE 1]

\* slice_intervals: one summary per window, in order; raised = TRUE stands for
\* an exception out of the function.
slice_intervals(surf, winds_profile) ==
    LET selected == [k \in 1..Len(INTERVALS) |-> Idxs(surf.time, INTERVALS[k])]
    IN  IF \E k \in 1..Len(INTERVALS) : WindowRaises(surf, selected[k])
        THEN [raised |-> TRUE, results |-> <<>>]
        ELSE [raised |-> FALSE,
              results |-> [k \in 1..Len(INTERVALS) |->
                             IF selected[k] = <<>> THEN NoData
                             ELSE Summary(surf, winds_profile, selected[k])]]

\* ------------------------------------------------------------------------
\* Inputs of the parser: texts built from at most MaxSegs segments, each an
\* optional separator, an optional label word, an optional angle (or a plain
\* word) and an optional direction letter.
\* ------------------------------------------------------------------------
AngleA == NumTok(47, 41, Absent)
AngleB == NumTok(-36, 49, 30)
Nums == {AngleA, AngleB}
Dirs == LatDirs \cup LonDirs

Segs == [sep : BOOLEAN, label : {"none", "lat", "lon"},
         body : Nums \cup {WordTok, SepTok}, dir : Dirs \cup {""}]

\* The tokens of one segment; body = SepTok stands for "no body".
SegTokens(g) ==
    (IF g.sep THEN <<SepTok>> ELSE <<>>)
    \o (IF g.label = "lat" THEN <<LatTok>>
        ELSE IF g.label = "lon" THEN <<LonTok>> ELSE <<>>)
    \o (IF g.body = SepTok THEN <<>> ELSE <<g.body>>)
    \o (IF g.dir = "" THEN <<>> ELSE <<DirTok(g.dir)>>)

RECURSIVE Flatten(_)
Flatten(gs) == IF gs = <<>> THEN <<>> ELSE SegTokens(Head(gs)) \o Flatten(Tail(gs))

Texts == {Flatten(gs) : gs \in UNION {[1..n -> Segs] : n \in 0..MaxSegs}}

\* ------------------------------------------------------------------------
\* Inputs of derive_winds_profile: at most MaxTimes hourly timestamps and, for
\* each model, three speed lists of one length (0 = the block is missing).
\* ------------------------------------------------------------------------
SpeedVals == {Absent, 18, 54}

ModelJson(a, b, c) == [s850 |-> a, s700 |-> b, s600 |-> c]

\* ------------------------------------------------------------------------
\* Inputs of slice_intervals: at most MaxHours consecutive hours of the day
\* with their precipitation and cloud-cover readings.
\* ------------------------------------------------------------------------
PrecipVals == {Absent, 5, 6}
CloudVals == {Absent, 30, 70, 100}

Surface(first, p, c) ==
    [time |-> [i \in 1..Len(p) |-> first + i - 1],
     precipitation |-> p,
     cloud_cover |-> c,
     wind_speed_10m |-> [i \in 1..Len(p) |-> 18],
     wind_gusts_10m |-> <<>>,
     temperature_2m |-> [i \in 1..Len(p) |-> 10],
     dew_point_2m |-> [i \in 1..Len(p) |-> 8]]

\* ------------------------------------------------------------------------
\* Inputs of slice_intervals for the winds: the same hours, a gust series that
\* is missing (empty) or has one reading per hour, and the wind profile
\* derive_winds_profile yields from one model whose speeds grow with the hour
\* and which is complete at the positions in present only.
\* ------------------------------------------------------------------------
GustVals == {Absent, 0, 36}

WindSurface(first, n, gusts) ==
    [Surface(first, [i \in 1..n |-> Absent], [i \in 1..n |-> 30])
        EXCEPT !.wind_gusts_10m = gusts]

HourModel(times, present) ==
    ModelJson([i \in 1..Len(times) |-> IF i \in present THEN 18 + times[i] ELSE Absent],
              [i \in 1..Len(times) |-> 36 + times[i]],
              [i \in 1..Len(times) |-> 54 + times[i]])

ProfileOf(times, present) ==
    derive_winds_profile(times, HourModel(times, present), ModelJson(<<>>, <<>>, <<>>))

NoIntervals == [raised |-> FALSE, results |-> <<>>]

parser_vars == <<input_text, parsed, parse_done>>
winds_vars == <<dw_times, dw_gfs, dw_icon, dw_out, dw_done>>
slice_vars == <<sl_surface, sl_profile, sl_intervals, sl_done>>
handler_vars == <<pc, msg, handled, coords, timezone, date_from, surface, winds_all,
                  intervals, place_short, fetched, failed, geo_failed, replies, calls>>
vars == <<parser_vars, winds_vars, slice_vars, handler_vars>>

EmptyJson == [s850 |-> <<>>, s700 |-> <<>>, s600 |-> <<>>]
EmptySurface == [time |-> <<>>, precipitation |-> <<>>, cloud_cover |-> <<>>,
                 wind_speed_10m |-> <<>>, wind_gusts_10m |-> <<>>,
                 temperature_2m |-> <<>>, dew_point_2m |-> <<>>]

\* The components a specification does not exercise stay as they are here.
ParserIdle == input_text = <<>> /\ parsed = ParseFail /\ parse_done = FALSE
WindsIdle ==
    /\ dw_times = <<>> /\ dw_gfs = EmptyJson /\ dw_icon = EmptyJson
    /\ dw_out = <<>> /\ dw_done = FALSE
SliceIdle ==
    /\ sl_surface = EmptySurface /\ sl_profile = <<>>
    /\ sl_intervals = NoIntervals /\ sl_done = FALSE
NoMessage == [has_text |-> FALSE, text |-> <<>>, tz |-> ""]
NoCalls == [c \in {"surface", "gfs_seamless", "icon_seamless", "geocode"} |-> 0]
NoWinds == [gfs_seamless |-> EmptyJson, icon_seamless |-> EmptyJson]
HandlerIdle ==
    /\ pc = "idle" /\ msg = NoMessage /\ handled = 0
    /\ coords = ParseFail /\ timezone = "auto" /\ date_from = ""
    /\ surface = EmptySurface /\ winds_all = NoWinds /\ intervals = <<>>
    /\ place_short = "" /\ fetched = {} /\ failed = "none"
    /\ geo_failed = FALSE /\ replies = <<>> /\ calls = NoCalls

\* ------------------------------------------------------------------------
\* Specification of the parser: parse_coordinates applied to any text
\* ------------------------------------------------------------------------
InitParse ==
    /\ input_text \in Texts
    /\ parsed = ParseFail
    /\ parse_done = FALSE
    /\ WindsIdle /\ SliceIdle /\ HandlerIdle

Parse ==
    /\ ~parse_done
    /\ parsed' = parse_coordinates(input_text)
    /\ parse_done' = TRUE
    /\ UNCHANGED <<input_text, winds_vars, slice_vars, handler_vars>>

NextParse == Parse
SpecParse == InitParse /\ [][NextParse]_vars

\* ------------------------------------------------------------------------
\* Specification of the wind profile: derive_winds_profile applied to any
\* pair of model series
\* ------------------------------------------------------------------------
InitWinds ==
    /\ \E n \in 0..MaxTimes :
          /\ dw_times = [i \in 1..n |-> i - 1]
          /\ \E len \in 0..n :
                \E a \in [1..len -> SpeedVals], b \in [1..len -> SpeedVals],
                   c \in [1..len -> SpeedVals] : dw_gfs = ModelJson(a, b, c)
          /\ \E len \in 0..n :
                \E a \in [1..len -> SpeedVals], b \in [1..len -> SpeedVals],
                   c \in [1..len -> SpeedVals] : dw_icon = ModelJson(a, b, c)
    /\ dw_out = <<>>
    /\ dw_done = FALSE
    /\ ParserIdle /\ SliceIdle /\ HandlerIdle

Derive ==
    /\ ~dw_done
    /\ dw_out' = derive_winds_profile(dw_times, dw_gfs, dw_icon)
    /\ dw_done' = TRUE
    /\ UNCHANGED <<dw_times, dw_gfs, dw_icon, parser_vars, slice_vars, handler_vars>>

NextWinds == Derive
SpecWinds == InitWinds /\ [][NextWinds]_vars

\* ------------------------------------------------------------------------
\* Specification of the aggregation: slice_intervals applied to any surface
\* series
\* ------------------------------------------------------------------------
InitSlice ==
    /\ \E n \in 0..MaxHours :
          \E first \in 0..(24 - n), p \in [1..n -> PrecipVals], c \in [1..n -> CloudVals] :
             sl_surface = Surface(first, p, c)
    /\ sl_profile = <<>>
    /\ sl_intervals = NoIntervals
    /\ sl_done = FALSE
    /\ ParserIdle /\ WindsIdle /\ HandlerIdle

Slice ==
    /\ ~sl_done
    /\ sl_intervals' = slice_intervals(sl_surface, sl_profile)
    /\ sl_done' = TRUE
    /\ UNCHANGED <<sl_surface, sl_profile, parser_vars, winds_vars, handler_vars>>

NextSlice == Slice
SpecSlice == InitSlice /\ [][NextSlice]_vars

\* ------------------------------------------------------------------------
\* Specification of the winds of a window: slice_intervals applied to any
\* surface series with gusts and any wind profile over its hours
\* ------------------------------------------------------------------------
InitWindow ==
    /\ \E n \in 0..MaxHours :
          \E first \in 0..(24 - n), present \in SUBSET (1..n) :
             \E gusts \in {<<>>} \cup [1..n -> GustVals] :
                /\ sl_surface = WindSurface(first, n, gusts)
                /\ sl_profile = ProfileOf(sl_surface.time, present)
    /\ sl_intervals = NoIntervals
    /\ sl_done = FALSE
    /\ ParserIdle /\ WindsIdle /\ HandlerIdle

NextWindow == Slice
SpecWindow == InitWindow /\ [][NextWindow]_vars

\* ------------------------------------------------------------------------
\* main.py: handle_message
\* ------------------------------------------------------------------------
\* 'place_short or "неизвестно"'
UnknownPlace == "neizvestno"

\* The timezone phrases a message may carry ("" = no phrase).
TzLabels == {"", "Europe/Kyiv", "Europe/Kiev (UTC+3)", "UTC+3"}

\* normalize_tz on those phrases: the Region/City token if there is one, else
\* the first word; Europe/Kiev becomes Europe/Kyiv.
normalize_tz(label) ==
    IF label = "" THEN "auto"
    ELSE IF label = "Europe/Kiev (UTC+3)" THEN "Europe/Kyiv"
    ELSE label

\* The zones pytz.timezone resolves; any other name raises.
KnownZones == {"Europe/Kyiv"}

\* The messages the transport delivers.
SampleTexts ==
    { <<LatTok, AngleA, DirTok("es"), SepTok, LonTok, AngleB, DirTok("ve")>>,
      <<AngleA>>,
      <<WordTok>>,
      <<>> }
Messages ==
    {[has_text |-> TRUE, text |-> t, tz |-> z] : t \in SampleTexts, z \in TzLabels}
    \cup {NoMessage}

\* The JSON the forecast endpoint may return.
GoodSurface ==
    [time |-> <<11, 12, 13>>,
     precipitation |-> <<Absent, 5, 6>>,
     cloud_cover |-> <<70, 30, 100>>,
     wind_speed_10m |-> <<18, 18, 36>>,
     wind_gusts_10m |-> <<36, Absent, 54>>,
     temperature_2m |-> <<10, 12, 12>>,
     dew_point_2m |-> <<8, 8, Absent>>]
ShortSurface == [GoodSurface EXCEPT !.precipitation = <<>>]
SampleSurfaces == {GoodSurface, ShortSurface, EmptySurface}
SampleModels ==
    {[s850 |-> <<18, 54, 18>>, s700 |-> <<54, 54, 18>>, s600 |-> <<54, 18, 18>>],
     [s850 |-> <<18, Absent, 54>>, s700 |-> <<18, 54, 54>>, s600 |-> <<18, 54, 54>>]}

\* The JSON the reverse-geocoding endpoint may return.
GeoResponses ==
    {[village |-> "", town |-> "Huliaipole", city |-> "", municipality |-> "",
      district |-> "", state |-> "Zaporizhzhia", display_name |-> "Huliaipole, Ukraine"],
     [village |-> "", town |-> "", city |-> "", municipality |-> "",
      district |-> "", state |-> "", display_name |-> ""]}

\* reverse_geocode's choice of the short name from a response.
ShortName(data) ==
    IF data.village # "" THEN data.village
    ELSE IF data.town # "" THEN data.town
    ELSE IF data.city # "" THEN data.city
    ELSE IF data.municipality # "" THEN data.municipality
    ELSE IF data.district # "" THEN data.district
    ELSE IF data.state # "" THEN data.state
    ELSE data.display_name

AllSources == {"surface", "gfs_seamless", "icon_seamless"}

ParseErrorReply == [kind |-> "parse_error", place |-> "", intervals |-> <<>>, sources |-> {}]
WeatherErrorReply == [kind |-> "weather_error", place |-> "", intervals |-> <<>>, sources |-> {}]

Init ==
    /\ HandlerIdle
    /\ ParserIdle /\ WindsIdle /\ SliceIdle

\* The transport calls handle_message with the next message.
Receive ==
    /\ pc \in {"idle", "done"}
    /\ handled < MaxMessages
    /\ \E m \in Messages : msg' = m
    /\ handled' = handled + 1
    /\ pc' = "check"
    /\ coords' = ParseFail /\ timezone' = "auto" /\ date_from' = ""
    /\ surface' = EmptySurface /\ winds_all' = NoWinds /\ intervals' = <<>>
    /\ place_short' = "" /\ fetched' = {} /\ failed' = "none"
    /\ geo_failed' = FALSE /\ replies' = <<>> /\ calls' = NoCalls
    /\ UNCHANGED <<parser_vars, winds_vars, slice_vars>>

\* Lines 51-52: a message without text is dropped.
CheckText ==
    /\ pc = "check"
    /\ pc' = IF msg.has_text THEN "parse" ELSE "done"
    /\ UNCHANGED <<msg, handled, coords, timezone, date_from, surface, winds_all,
                   intervals, place_short, fetched, failed, geo_failed, replies, calls>>
    /\ UNCHANGED <<parser_vars, winds_vars, slice_vars>>

\* A variant of ParseStep with the bug of a missing 'return' after the
\* parse-error reply.
ParseStepNoReturn ==
    /\ pc = "parse"
    /\ LET r == parse_coordinates(msg.text)
       IN  /\ coords' = r
           /\ replies' = IF r.ok THEN replies ELSE Append(replies, ParseErrorReply)
           /\ pc' = "tz"
    /\ UNCHANGED <<msg, handled, timezone, date_from, surface, winds_all,
                   intervals, place_short, fetched, failed, geo_failed, calls>>
    /\ UNCHANGED <<parser_vars, winds_vars, slice_vars>>

\* Lines 55-61: parse the text; on any exception send the parse-error reply
\* and return.
ParseStep ==
    /\ pc = "parse"
    /\ LET r == parse_coordinates(msg.text)
       IN  IF r.ok
           THEN /\ coords' = r
                /\ pc' = "tz"
                /\ UNCHANGED replies
           ELSE /\ replies' = Append(replies, ParseErrorReply)
                /\ pc' = "done"
                /\ UNCHANGED coords
    /\ UNCHANGED <<msg, handled, timezone, date_from, surface, winds_all,
                   intervals, place_short, fetched, failed, geo_failed, calls>>
    /\ UNCHANGED <<parser_vars, winds_vars, slice_vars>>

\* A variant of ResolveTz with the bug of a zone lookup outside the try: an
\* unresolvable zone ends the handler with the weather-error reply.
ResolveTzRaises ==
    /\ pc = "tz"
    /\ LET zone == IF msg.tz # "" THEN normalize_tz(msg.tz) ELSE "auto"
       IN  /\ timezone' = zone
           /\ IF zone = "auto" \/ zone \in KnownZones
              THEN /\ date_from' = IF zone = "auto" THEN "system_local" ELSE "zone"
                   /\ pc' = "surface"
                   /\ UNCHANGED replies
              ELSE /\ date_from' = ""
                   /\ replies' = Append(replies, WeatherErrorReply)
                   /\ pc' = "done"
    /\ UNCHANGED <<msg, handled, coords, surface, winds_all,
                   intervals, place_short, fetched, failed, geo_failed, calls>>
    /\ UNCHANGED <<parser_vars, winds_vars, slice_vars>>

\* Lines 78-87: the zone, and the date from the zone's clock, from the system's
\* local clock ("auto"), or from the naive system clock when the zone lookup
\* raises.
ResolveTz ==
    /\ pc = "tz"
    /\ LET zone == IF msg.tz # "" THEN normalize_tz(msg.tz) ELSE "auto"
       IN  /\ timezone' = zone
           /\ date_from' = IF zone = "auto" THEN "system_local"
                           ELSE IF zone \in KnownZones THEN "zone"
                           ELSE "system_naive"
    /\ pc' = "surface"
    /\ UNCHANGED <<msg, handled, coords, surface, winds_all,
                   intervals, place_short, fetched, failed, geo_failed, replies, calls>>
    /\ UNCHANGED <<parser_vars, winds_vars, slice_vars>>

\* A variant of FetchSurface with the bug of a retry: a failed request is sent
\* once more before the handler gives up.
FetchSurfaceRetry ==
    /\ pc = "surface"
    /\ calls' = [calls EXCEPT !["surface"] = @ + 1]
    /\ \E ok \in BOOLEAN :
          IF ok
          THEN /\ \E j \in SampleSurfaces : surface' = j
               /\ fetched' = fetched \cup {"surface"}
               /\ pc' = "gfs_seamless"
               /\ UNCHANGED <<failed, replies>>
          ELSE IF calls["surface"] = 0
          THEN UNCHANGED <<surface, fetched, pc, failed, replies>>
          ELSE /\ failed' = "surface"
               /\ replies' = Append(replies, WeatherErrorReply)
               /\ pc' = "done"
               /\ UNCHANGED <<surface, fetched>>
    /\ UNCHANGED <<msg, handled, coords, timezone, date_from, winds_all,
                   intervals, place_short, geo_failed>>
    /\ UNCHANGED <<parser_vars, winds_vars, slice_vars>>

\* Line 90, fetch_surface: one request; a network failure or an error status
\* raises, which lines 97-100 answer with the weather-error reply.
FetchSurface ==
    /\ pc = "surface"
    /\ calls' = [calls EXCEPT !["surface"] = @ + 1]
    /\ \E ok \in BOOLEAN :
          IF ok
          THEN /\ \E j \in SampleSurfaces : surface' = j
               /\ fetched' = fetched \cup {"surface"}
               /\ pc' = "gfs_seamless"
               /\ UNCHANGED <<failed, replies>>
          ELSE /\ failed' = "surface"
               /\ replies' = Append(replies, WeatherErrorReply)
               /\ pc' = "done"
               /\ UNCHANGED <<surface, fetched>>
    /\ UNCHANGED <<msg, handled, coords, timezone, date_from, winds_all,
                   intervals, place_short, geo_failed>>
    /\ UNCHANGED <<parser_vars, winds_vars, slice_vars>>

\* Line 91, fetch_winds_aloft, first turn of its loop: the gfs_seamless request.
FetchGfs ==
    /\ pc = "gfs_seamless"
    /\ calls' = [calls EXCEPT !["gfs_seamless"] = @ + 1]
    /\ \E ok \in BOOLEAN :
          IF ok
          THEN /\ \E j \in SampleModels : winds_all' = [winds_all EXCEPT !.gfs_seamless = j]
               /\ fetched' = fetched \cup {"gfs_seamless"}
               /\ pc' = "icon_seamless"
               /\ UNCHANGED <<failed, replies>>
          ELSE /\ failed' = "gfs_seamless"
               /\ replies' = Append(replies, WeatherErrorReply)
               /\ pc' = "done"
               /\ UNCHANGED <<winds_all, fetched>>
    /\ UNCHANGED <<msg, handled, coords, timezone, date_from, surface,
                   intervals, place_short, geo_failed>>
    /\ UNCHANGED <<parser_vars, winds_vars, slice_vars>>

\* A variant of FetchIcon with the bug of skipping a model whose request
\* failed, so that the lookup goes on with the other model alone.
FetchIconSkipFailed ==
    /\ pc = "icon_seamless"
    /\ calls' = [calls EXCEPT !["icon_seamless"] = @ + 1]
    /\ \E ok \in BOOLEAN :
          IF ok
          THEN /\ \E j \in SampleModels : winds_all' = [winds_all EXCEPT !.icon_seamless = j]
               /\ fetched' = fetched \cup {"icon_seamless"}
               /\ pc' = "compute"
               /\ UNCHANGED <<failed, replies>>
          ELSE /\ failed' = "icon_seamless"
               /\ pc' = "compute"
               /\ UNCHANGED <<winds_all, fetched, replies>>
    /\ UNCHANGED <<msg, handled, coords, timezone, date_from, surface,
                   intervals, place_short, geo_failed>>
    /\ UNCHANGED <<parser_vars, winds_vars, slice_vars>>

\* fetch_winds_aloft, second turn of its loop: the icon_seamless request.
FetchIcon ==
    /\ pc = "icon_seamless"
    /\ calls' = [calls EXCEPT !["icon_seamless"] = @ + 1]
    /\ \E ok \in BOOLEAN :
          IF ok
          THEN /\ \E j \in SampleModels : winds_all' = [winds_all EXCEPT !.icon_seamless = j]
               /\ fetched' = fetched \cup {"icon_seamless"}
               /\ pc' = "compute"
               /\ UNCHANGED <<failed, replies>>
          ELSE /\ failed' = "icon_seamless"
               /\ replies' = Append(replies, WeatherErrorReply)
               /\ pc' = "done"
               /\ UNCHANGED <<winds_all, fetched>>
    /\ UNCHANGED <<msg, handled, coords, timezone, date_from, surface,
                   intervals, place_short, geo_failed>>
    /\ UNCHANGED <<parser_vars, winds_vars, slice_vars>>

\* Lines 92-96: the wind profile and the intervals; an exception out of either
\* is answered like a failed fetch.
Compute ==
    /\ pc = "compute"
    /\ LET winds_profile == derive_winds_profile(surface.time, winds_all.gfs_seamless,
                                                 winds_all.icon_seamless)
           r == slice_intervals(surface, winds_profile)
       IN  IF r.raised
           THEN /\ failed' = "compute"
                /\ replies' = Append(replies, WeatherErrorReply)
                /\ pc' = "done"
                /\ UNCHANGED intervals
           ELSE /\ intervals' = r.results
                /\ pc' = "geocode"
                /\ UNCHANGED <<failed, replies>>
    /\ UNCHANGED <<msg, handled, coords, timezone, date_from, surface, winds_all,
                   place_short, fetched, geo_failed, calls>>
    /\ UNCHANGED <<parser_vars, winds_vars, slice_vars>>

\* A variant of Geocode with the bug of letting the failure out of
\* reverse_geocode: the handler ends there.
GeocodeRaises ==
    /\ pc = "geocode"
    /\ calls' = [calls EXCEPT !["geocode"] = @ + 1]
    /\ \E ok \in BOOLEAN :
          IF ok
          THEN /\ \E d \in GeoResponses : place_short' = ShortName(d)
               /\ geo_failed' = FALSE
               /\ pc' = "report"
          ELSE /\ place_short' = ""
               /\ geo_failed' = TRUE
               /\ pc' = "done"
    /\ UNCHANGED <<msg, handled, coords, timezone, date_from, surface, winds_all,
                   intervals, fetched, failed, replies>>
    /\ UNCHANGED <<parser_vars, winds_vars, slice_vars>>

\* Line 102, reverse_geocode: one request; any exception gives ("", "").
Geocode ==
    /\ pc = "geocode"
    /\ calls' = [calls EXCEPT !["geocode"] = @ + 1]
    /\ \E ok \in BOOLEAN :
          IF ok
          THEN /\ \E d \in GeoResponses : place_short' = ShortName(d)
               /\ geo_failed' = FALSE
          ELSE /\ place_short' = ""
               /\ geo_failed' = TRUE
    /\ pc' = "report"
    /\ UNCHANGED <<msg, handled, coords, timezone, date_from, surface, winds_all,
                   intervals, fetched, failed, replies>>
    /\ UNCHANGED <<parser_vars, winds_vars, slice_vars>>

\* Lines 103-107: the report, built from the intervals and the place text, is
\* sent; sources records which fetches it rests on.
SendReport ==
    /\ pc = "report"
    /\ replies' = Append(replies,
                         [kind |-> "report",
                          place |-> IF place_short # "" THEN place_short ELSE UnknownPlace,
                          intervals |-> intervals,
                          sources |-> fetched])
    /\ pc' = "done"
    /\ UNCHANGED <<msg, handled, coords, timezone, date_from, surface, winds_all,
                   intervals, place_short, fetched, failed, geo_failed, calls>>
    /\ UNCHANGED <<parser_vars, winds_vars, slice_vars>>

Next ==
    \/ Receive
    \/ CheckText
    \/ ParseStep
    \/ ResolveTz
    \/ FetchSurface
    \/ FetchGfs
    \/ FetchIcon
    \/ Compute
    \/ Geocode
    \/ SendReport

Spec == Init /\ [][Next]_vars

\* ------------------------------------------------------------------------
\* Claims about handle_message (checked under Spec)
\* ------------------------------------------------------------------------
\* C1: once a weather fetch has failed, the message is answered with the
\* weather-error reply and no report is sent for it; a report always rests on
\* all three fetches.
C1_NoPartialReport ==
    /\ \A i \in 1..Len(replies) :
          replies[i].kind = "report" => replies[i].sources = AllSources
    /\ failed \in AllSources =>
          /\ \A i \in 1..Len(replies) : replies[i].kind # "report"
          /\ pc = "done"
          /\ replies = <<WeatherErrorReply>>

\* Witness of C1: the second wind model failed after the surface and the
\* first model had been fetched, and the handler ended with the error reply.
C1_Witness ==
    /\ pc = "done"
    /\ failed = "icon_seamless"
    /\ fetched = {"surface", "gfs_seamless"}
    /\ replies = <<WeatherErrorReply>>

\* C2: a message with text gets exactly one reply (parse error, weather error
\* or report), after which the handler has ended; never two, never none.
C2_ExactlyOneReply ==
    /\ Len(replies) <= 1
    /\ Len(replies) = 1 => pc = "done"
    /\ (pc = "done" /\ msg.has_text) =>
          /\ Len(replies) = 1
          /\ replies[1].kind \in {"parse_error", "weather_error", "report"}

\* Witness of C2: the handler has ended on a message with text that did not
\* parse, having sent the parse-error reply.
C2_Witness ==
    /\ pc = "done"
    /\ msg.has_text
    /\ replies = <<ParseErrorReply>>

\* C3: when all fetches and the aggregation succeeded the report is sent
\* whether or not reverse_geocode failed, and on failure the place is the
\* unknown-place label.
C3_GeocodeNeverAborts ==
    (pc = "done" /\ fetched = AllSources /\ failed = "none") =>
        /\ Len(replies) = 1
        /\ replies[1].kind = "report"
        /\ geo_failed => replies[1].place = UnknownPlace

\* Witness of C3: reverse_geocode failed and the report went out with the
\* unknown-place label.
C3_Witness ==
    /\ pc = "done"
    /\ geo_failed
    /\ Len(replies) = 1
    /\ replies[1].kind = "report"
    /\ replies[1].place = UnknownPlace

\* C4: while one message is handled each endpoint is requested at most once.
C4_SingleAttempt ==
    \A c \in DOMAIN calls : calls[c] <= 1

\* Witness of C4: the gfs_seamless request failed and the handler ended with
\* one request to the surface endpoint, one to gfs_seamless and none after.
C4_Witness ==
    /\ pc = "done"
    /\ failed = "gfs_seamless"
    /\ calls["surface"] = 1 /\ calls["gfs_seamless"] = 1
    /\ calls["icon_seamless"] = 0 /\ calls["geocode"] = 0

\* The zone name of the message being handled is neither "auto" nor a zone
\* the lookup resolves.
Unresolvable == timezone \notin KnownZones \cup {"auto"}

\* C11: an unresolvable zone never ends the handler in timezone handling and
\* never by itself produces a reply: the report date comes from the system's
\* local clock, the handler goes on to the surface fetch with no reply sent,
\* and any reply sent later follows a surface request (it is the fetches' or
\* the aggregation's error reply, or the report).
C11_TzFallback ==
    Unresolvable =>
        /\ date_from = "system_naive"
        /\ pc \in {"surface", "gfs_seamless", "icon_seamless", "compute",
                   "geocode", "report", "done"}
        /\ pc = "surface" => (replies = <<>> /\ failed = "none")
        /\ pc = "done" => calls["surface"] = 1
        /\ replies # <<>> =>
              /\ calls["surface"] = 1
              /\ (replies[1].kind = "weather_error") <=> (failed # "none")
              /\ replies[1].kind # "parse_error"

\* Witness of C11: a message whose zone phrase "UTC+3" does not resolve was
\* answered with the report, dated from the system's local clock.
C11_Witness ==
    /\ pc = "done"
    /\ msg.tz = "UTC+3"
    /\ Unresolvable
    /\ date_from = "system_naive"
    /\ fetched = AllSources
    /\ Len(replies) = 1
    /\ replies[1].kind = "report"

\* ------------------------------------------------------------------------
\* Claims about parse_coordinates (checked under SpecParse)
\* ------------------------------------------------------------------------
\* The magnitude of a matched angle, in arc seconds.
Mag(n) == AbsInt(n.d) * 3600 + OrZero(n.m) * 60 + OrZero(n.s)

\* C5: parse_coordinates fails whenever the text does not contain two
\* numeric-angle fragments.
C5_RejectsFewerThanTwo ==
    (parse_done /\ Len(findall(input_text)) < 2) => ~parsed.ok

\* C6: when the text does not carry both labels and holds at least two
\* fragments, the latitude is read from the first fragment and the longitude
\* from the second.
C6_FirstLatSecondLon ==
    (parse_done /\ ~(HasLatLabel(input_text) /\ HasLonLabel(input_text))
                /\ Len(findall(input_text)) >= 2)
    => /\ parsed.ok
       /\ AbsInt(parsed.lat) = Mag(findall(input_text)[1])
       /\ AbsInt(parsed.lon) = Mag(findall(input_text)[2])

\* A input_text with exactly two angles, the first directly followed by a latitude
\* letter and the second directly followed by a longitude letter.
TwoAnglesWithIndicators(t) ==
    /\ Len(findall(t)) = 2
    /\ \A i \in 1..Len(t) : IsNum(t[i]) => (i < Len(t) /\ t[i + 1].k = "dir")
    /\ LET i == FirstNum(t) IN IsLatDir(t[i + 1])
    /\ LET j == CHOOSE j \in 1..Len(t) : IsNum(t[j]) /\ j # FirstNum(t)
       IN  IsLonDir(t[j + 1])

LatSignOf(c) == IF c \in {"s", "yu"} THEN -1 ELSE 1
LonSignOf(c) == IF c \in {"w", "ze"} THEN -1 ELSE 1

\* C7: for a DMS input with a direction indicator after each number, latitude
\* and longitude are sign * (|deg| + min/60 + sec/3600) of their own number,
\* negative exactly for a south, respectively west, indicator.
C7_SignedDecimal ==
    (parse_done /\ TwoAnglesWithIndicators(input_text))
    => LET i == FirstNum(input_text)
           j == CHOOSE j \in 1..Len(input_text) : IsNum(input_text[j]) /\ j # i
       IN  /\ parsed.ok
           /\ parsed.lat = LatSignOf(input_text[i + 1].c) * Mag(input_text[i])
           /\ parsed.lon = LonSignOf(input_text[j + 1].c) * Mag(input_text[j])

\* The same statement for texts whose two angles stand in two labelled parts
\* (latitude part and longitude part), which is where the code meets it.
C7_Labelled ==
    (parse_done /\ TwoAnglesWithIndicators(input_text)
        /\ Len(SplitParts(input_text)) = 2
        /\ HasLatLabel(SplitParts(input_text)[1]) /\ ~HasLonLabel(SplitParts(input_text)[1])
        /\ FirstNum(SplitParts(input_text)[1]) # 0
        /\ HasLonLabel(SplitParts(input_text)[2]) /\ ~HasLatLabel(SplitParts(input_text)[2])
        /\ FirstNum(SplitParts(input_text)[2]) # 0)
    => LET i == FirstNum(input_text)
           j == CHOOSE j \in 1..Len(input_text) : IsNum(input_text[j]) /\ j # i
       IN  /\ parsed.ok
           /\ parsed.lat = LatSignOf(input_text[i + 1].c) * Mag(input_text[i])
           /\ parsed.lon = LonSignOf(input_text[j + 1].c) * Mag(input_text[j])

\* ------------------------------------------------------------------------
\* Claims about slice_intervals (checked under SpecSlice)
\* ------------------------------------------------------------------------
\* The windows whose selection holds index i.
WindowsOf(i) ==
    {k \in 1..Len(sl_intervals.results) :
        \E j \in 1..Len(sl_intervals.results[k].idxs) :
            sl_intervals.results[k].idxs[j] = i}

SliceRan == sl_done /\ ~sl_intervals.raised

\* C8 as stated: the seven windows partition the day, every hourly timestamp
\* from 00:00 to 23:00 is selected into exactly one window.
C8_EveryHourInOneWindow ==
    SliceRan => \A i \in 1..Len(sl_surface.time) : Cardinality(WindowsOf(i)) = 1

\* C8 as amended: the windows are half-open and do not overlap; every hourly
\* timestamp from 00:00 to 22:00 is selected into exactly one window, the one
\* with start <= hour < end, and the 23:00 timestamp into none.
C8_WindowsDisjointUpTo23 ==
    SliceRan =>
      \A i \in 1..Len(sl_surface.time) :
        LET t == sl_surface.time[i]
            ws == WindowsOf(i)
        IN  /\ t < 23 =>
                 /\ Cardinality(ws) = 1
                 /\ \A k \in ws : INTERVALS[k][1] <= t /\ t < INTERVALS[k][2]
            /\ t = 23 => ws = {}

\* Witness of C8: a series that ends 21:00, 22:00, 23:00 was sliced, and the
\* last window selected the first two hours only.
C8_Witness ==
    /\ SliceRan
    /\ Len(sl_surface.time) = 3
    /\ sl_surface.time[3] = 23
    /\ sl_intervals.results[7].idxs = <<1, 2>>

\* The precipitation sum and cloud-cover sum of window k's selected hours.
PSumOf(k) == SumSeq(OrZeroAt(sl_surface.precipitation, sl_intervals.results[k].idxs))
CloudSumOf(k) == SumSeq(OrZeroAt(sl_surface.cloud_cover, sl_intervals.results[k].idxs))

\* C9: for every window with a selected hour the description is "rain" when
\* the precipitation sum exceeds 0.05, else "overcast" when the mean cloud
\* cover is at least 70, else "variable" when it is at least 30, else
\* "clear-ish".
C9_DescriptionPriority ==
    SliceRan =>
      \A k \in 1..Len(sl_intervals.results) :
        LET r == sl_intervals.results[k]
            n == Len(r.idxs)
            ps == PSumOf(k)
            cs == CloudSumOf(k)
        IN  n > 0 =>
              /\ (r.desc = "rain") <=> ps > 5
              /\ (r.desc = "overcast") <=> (ps <= 5 /\ cs >= 70 * n)
              /\ (r.desc = "variable") <=> (ps <= 5 /\ cs < 70 * n /\ cs >= 30 * n)
              /\ (r.desc = "clear-ish") <=> (ps <= 5 /\ cs < 30 * n)

\* Witness of C9: a window of at least two hours whose precipitation sum is
\* exactly 0.05 and whose mean cloud cover is exactly 70 was described as
\* overcast.
C9_Witness ==
    /\ SliceRan
    /\ \E k \in 1..Len(sl_intervals.results) :
          /\ Len(sl_intervals.results[k].idxs) >= 2
          /\ PSumOf(k) = 5
          /\ CloudSumOf(k) = 70 * Len(sl_intervals.results[k].idxs)
          /\ sl_intervals.results[k].desc = "overcast"

\* ------------------------------------------------------------------------
\* Claims about the winds of a window (checked under SpecWindow)
\* ------------------------------------------------------------------------
\* The three altitude fields of summary r are those of the profile's sample at
\* hour h, or all absent when the profile has no sample at h.
AloftFrom(r, h) ==
    IF h \in DOMAIN sl_profile
    THEN /\ r.w1500 = sl_profile[h].w1500
         /\ r.w2500 = sl_profile[h].w2500
         /\ r.w3500 = sl_profile[h].w3500
    ELSE r.w1500 = Absent /\ r.w2500 = Absent /\ r.w3500 = Absent

\* The selected hours of summary r, and how many of them lie before and
\* after hour h.
HoursOf(r) == {sl_surface.time[r.idxs[j]] : j \in 1..Len(r.idxs)}
Before(r, h) == Cardinality({t \in HoursOf(r) : t < h})
After(r, h) == Cardinality({t \in HoursOf(r) : t > h})

\* C12 as stated: the upper-air winds of a window are read from the profile's
\* sample at the middle selected hour, on an even count the EARLIER of the two
\* middle hours (one selected hour fewer before it than after it); without a
\* sample at that hour all three fields are absent.
C12_EarlierMiddle ==
    SliceRan =>
      \A k \in 1..Len(sl_intervals.results) :
        LET r == sl_intervals.results[k]
            n == Len(r.idxs)
        IN  n > 0 =>
              \E h \in HoursOf(r) :
                 /\ After(r, h) = Before(r, h) + (IF n % 2 = 0 THEN 1 ELSE 0)
                 /\ AloftFrom(r, h)

\* C12 as amended: the sample is the one at selected[len(selected) // 2], on
\* an even count the LATER of the two middle hours (one selected hour more
\* before it than after it); without a sample at that hour all three fields
\* are absent, whatever samples the other hours of the window have.
C12_LaterMiddle ==
    SliceRan =>
      \A k \in 1..Len(sl_intervals.results) :
        LET r == sl_intervals.results[k]
            n == Len(r.idxs)
        IN  n > 0 =>
              \E h \in HoursOf(r) :
                 /\ Before(r, h) = After(r, h) + (IF n % 2 = 0 THEN 1 ELSE 0)
                 /\ AloftFrom(r, h)

\* Witness of C12: a window with two selected hours, the profile holding a
\* sample at the earlier hour and none at the later one, got three absent
\* altitude fields.
C12_Witness ==
    /\ SliceRan
    /\ \E k \in 1..Len(sl_intervals.results) :
          LET r == sl_intervals.results[k]
          IN  /\ Len(r.idxs) = 2
              /\ sl_surface.time[r.idxs[1]] \in DOMAIN sl_profile
              /\ sl_surface.time[r.idxs[2]] \notin DOMAIN sl_profile
              /\ r.w1500 = Absent /\ r.w2500 = Absent /\ r.w3500 = Absent

\* The gust readings that are present among the selected hours of summary r.
GustReadings(r) ==
    IF sl_surface.wind_gusts_10m = <<>> THEN {}
    ELSE {sl_surface.wind_gusts_10m[r.idxs[j]] : j \in 1..Len(r.idxs)} \ {Absent}

\* C13: for every window with a selected hour the gust field is the maximum
\* of the converted gust readings of the selected hours, and it is absent when
\* those hours have no reading (the series is missing, or every selected
\* reading is missing); a missing reading is never reported as a gust of 0.
C13_GustMaxOrAbsent ==
    SliceRan =>
      \A k \in 1..Len(sl_intervals.results) :
        LET r == sl_intervals.results[k]
            g == GustReadings(r)
        IN  Len(r.idxs) > 0 =>
              IF g = {} THEN r.wind_gust_ms = Absent
              ELSE \E x \in g : /\ \A y \in g : y <= x
                                /\ r.wind_gust_ms = to_ms(x)

\* The same statement for the windows where the code meets it: the gust
\* series is missing, or some selected hour has a reading.
C13_WithReadingOrNoSeries ==
    SliceRan =>
      \A k \in 1..Len(sl_intervals.results) :
        LET r == sl_intervals.results[k]
            g == GustReadings(r)
        IN  (Len(r.idxs) > 0 /\ (g # {} \/ sl_surface.wind_gusts_10m = <<>>)) =>
              IF g = {} THEN r.wind_gust_ms = Absent
              ELSE \E x \in g : /\ \A y \in g : y <= x
                                /\ r.wind_gust_ms = to_ms(x)

\* ------------------------------------------------------------------------
\* Claims about derive_winds_profile (checked under SpecWinds)
\* ------------------------------------------------------------------------
\* A model has non-absent speeds at all three levels at index i.
Complete(data, i) ==
    /\ i <= Len(data.s850) /\ i <= Len(data.s700) /\ i <= Len(data.s600)
    /\ data.s850[i] # Absent /\ data.s700[i] # Absent /\ data.s600[i] # Absent

\* A model has some, but not all, of the three speeds at index i.
Partial(data, i) ==
    /\ ~Complete(data, i)
    /\ i <= Len(data.s850) /\ i <= Len(data.s700) /\ i <= Len(data.s600)
    /\ (data.s850[i] # Absent \/ data.s700[i] # Absent \/ data.s600[i] # Absent)

\* The sample of one model alone, in units of 1/864 m/s: the 850 hPa speed at
\* 1500 m, s850 + (1000/1500)(s700 - s850) at 2500 m and
\* s700 + (500/1200)(s600 - s700) at 3500 m, each speed being km/h / 3.6.
AloneSample(data, i) ==
    [w1500 |-> 240 * data.s850[i],
     w2500 |-> 80 * data.s850[i] + 160 * data.s700[i],
     w3500 |-> 140 * data.s700[i] + 100 * data.s600[i]]

\* C10: at a timestamp where exactly one model is complete the sample is that
\* model's alone; at a timestamp where neither is complete there is no entry.
C10_SingleModelSample ==
    dw_done =>
      \A i \in 1..Len(dw_times) :
        /\ (Complete(dw_gfs, i) /\ ~Complete(dw_icon, i)) =>
              /\ dw_times[i] \in DOMAIN dw_out
              /\ dw_out[dw_times[i]] = AloneSample(dw_gfs, i)
        /\ (Complete(dw_icon, i) /\ ~Complete(dw_gfs, i)) =>
              /\ dw_times[i] \in DOMAIN dw_out
              /\ dw_out[dw_times[i]] = AloneSample(dw_icon, i)
        /\ (~Complete(dw_gfs, i) /\ ~Complete(dw_icon, i)) =>
              dw_times[i] \notin DOMAIN dw_out

\* Witness of C10: the profile was derived at a timestamp where one model is
\* complete, with unequal speeds, and the other has partial readings.
C10_Witness ==
    /\ dw_done
    /\ \E i \in 1..Len(dw_times) :
          /\ Complete(dw_gfs, i) /\ Partial(dw_icon, i)
          /\ dw_gfs.s850[i] # dw_gfs.s700[i]
          /\ dw_times[i] \in DOMAIN dw_out

=============================================================================
